---- MODULE Spec2Model ----
(***************************************************************************)
(* Model of src/data/post.ts: the visibility filter getAllPosts and the    *)
(* derivations groupPostsByYear, getAllTags, getUniqueTags and             *)
(* getUniqueTagsWithCount.  Every function is pure; the state machine      *)
(* draws an input array and a build environment in Init and each action    *)
(* applies one exported function to it.                                    *)
(*                                                                         *)
(* Representation of the JavaScript values:                                *)
(*   string used only by equality (a tag)  -> TLA+ string                  *)
(*   string inspected by prefix (an id)    -> sequence of characters       *)
(*   Date                                  -> its time value, in hours     *)
(*   array                                 -> sequence                     *)
(*   plain object / Map / Set              -> sequence of entries in       *)
(*                                            creation (insertion) order   *)
(***************************************************************************)
EXTENDS Integers, Sequences, FiniteSets

VARIABLES posts, PROD, LocalTZA, called, ret

vars == <<posts, PROD, LocalTZA, called, ret>>

----------------------------------------------------------------------------
(* Bounds and input domains *)

MaxPosts == 3
MaxTags == 2
MaxAllTags == 4

Tags == {"a", "b", "c"}

\* "demo/a", "demo", "blog/a", "blog/demo/"
Ids == { <<"d","e","m","o","/","a">>, <<"d","e","m","o">>,
         <<"b","l","o","g","/","a">>, <<"b","l","o","g","/","d","e","m","o","/">> }

\* time values in hours since 1970-01-01T00:00Z:
\* 2023-12-31T20:00Z, 2024-01-01T04:00Z, 2024-12-31T20:00Z, 2025-01-01T04:00Z
Dates == {473348, 473356, 482132, 482140}

\* offsets of the local time zone from UTC, in hours
TimeZones == {-8, 0, 8}

SeqsUpTo(S, n) == UNION {[1..k -> S] : k \in 0..n}

Range(s) == {s[i] : i \in DOMAIN s}

\* a CollectionEntry<"post">: the fields post.ts reads
Entry(id, draft, publishDate, tags) ==
    [id |-> id, data |-> [draft |-> draft, publishDate |-> publishDate, tags |-> tags]]

\* the id of the i-th entry of an array whose ids are not under test
PostId(i) == <<"b","l","o","g","/">> \o <<(<<"1","2","3","4","5","6","7","8","9">>)[i]>>

----------------------------------------------------------------------------
(* getAllPosts *)

\* String.prototype.startsWith
startsWith(s, prefix) ==
    /\ Len(s) >= Len(prefix)
    /\ SubSeq(s, 1, Len(prefix)) = prefix

DemoPrefix == <<"d","e","m","o","/">>

\* mutant: production only filters drafts (the commented-out filter of lines 5-8)
PostFilterNoDemo(prod, entry) == ~entry.data.draft

\* mutant: development shows everything (the alternative named in line 18)
PostFilterDevAll(prod, entry) ==
    IF prod
    THEN LET isDemo == startsWith(entry.id, DemoPrefix)
         IN  ~entry.data.draft /\ ~isDemo
    ELSE TRUE

\* mutant: production tests the path only
PostFilterProdDrafts(prod, entry) ==
    IF prod
    THEN LET isDemo == startsWith(entry.id, DemoPrefix)
         IN  ~isDemo
    ELSE ~entry.data.draft

\* the filter callback given to getCollection
PostFilter(prod, entry) ==
    IF prod
    THEN LET isDemo == startsWith(entry.id, DemoPrefix)
         IN  ~entry.data.draft /\ ~isDemo
    ELSE ~entry.data.draft

\* mutant: the entries that pass the filter, last first
getAllPostsReversed(collection, prod) ==
    LET kept == SelectSeq(collection, LAMBDA entry : PostFilter(prod, entry))
    IN  [i \in DOMAIN kept |-> kept[Len(kept) + 1 - i]]

\* getCollection("post", filter): the entries of the collection that pass
\* the filter, in collection order
getAllPosts(collection, prod) ==
    SelectSeq(collection, LAMBDA entry : PostFilter(prod, entry))

----------------------------------------------------------------------------
(* Date.prototype.getFullYear (ECMA-262 21.4.1), time unit = one hour *)

DayFromYear(y) ==
    365 * (y - 1970) + ((y - 1969) \div 4) - ((y - 1901) \div 100) + ((y - 1601) \div 400)

TimeFromYear(y) == 24 * DayFromYear(y)

\* the year y with TimeFromYear(y) <= t < TimeFromYear(y + 1); a year has
\* 365 or 366 days, which brackets y for a time value t >= 0
YearFromTime(t) ==
    CHOOSE y \in (1970 + t \div (24 * 366))..(1970 + t \div (24 * 365)) :
        TimeFromYear(y) <= t /\ t < TimeFromYear(y + 1)

LocalTime(t, tza) == t + tza

getFullYear(date, tza) == YearFromTime(LocalTime(date, tza))

----------------------------------------------------------------------------
(* A plain object / Map: a sequence of <<key, value>> in creation order *)

HasKey(o, k) == \E i \in DOMAIN o : o[i][1] = k

\* o[k] / map.get(k) for a present key
Get(o, k) == o[CHOOSE i \in DOMAIN o : o[i][1] = k][2]

\* mutant: every write adds an entry
PutAppend(o, k, v) == Append(o, <<k, v>>)

\* o[k] = v / map.set(k, v): an existing key keeps its place
Put(o, k, v) ==
    IF HasKey(o, k)
    THEN [i \in DOMAIN o |-> IF o[i][1] = k THEN <<k, v>> ELSE o[i]]
    ELSE Append(o, <<k, v>>)

----------------------------------------------------------------------------
(* groupPostsByYear *)

\* mutant: the bucket is re-created on every post
GroupReducerReset(acc, post, tza) ==
    LET year == getFullYear(post.data.publishDate, tza)
    IN  Put(acc, year, <<post>>)

\* mutant: unshift instead of push
GroupReducerUnshift(acc, post, tza) ==
    LET year == getFullYear(post.data.publishDate, tza)
        acc1 == IF ~HasKey(acc, year) THEN Put(acc, year, <<>>) ELSE acc
    IN  Put(acc1, year, <<post>> \o Get(acc1, year))

\* mutant: the first post of a year only creates its bucket
GroupReducerElse(acc, post, tza) ==
    LET year == getFullYear(post.data.publishDate, tza)
    IN  IF ~HasKey(acc, year)
        THEN Put(acc, year, <<>>)
        ELSE Put(acc, year, Append(Get(acc, year), post))

\* the reducer callback; !acc[year] holds exactly when the key is absent,
\* because every stored value is an array and arrays are truthy
GroupReducer(acc, post, tza) ==
    LET year == getFullYear(post.data.publishDate, tza)
        acc1 == IF ~HasKey(acc, year) THEN Put(acc, year, <<>>) ELSE acc
    IN  IF HasKey(acc1, year)
        THEN Put(acc1, year, Append(Get(acc1, year), post))
        ELSE acc1

RECURSIVE GroupReduce(_, _, _)
GroupReduce(arr, acc, tza) ==
    IF arr = <<>> THEN acc
    ELSE GroupReduce(Tail(arr), GroupReducer(acc, Head(arr), tza), tza)

groupPostsByYear(arr, tza) == GroupReduce(arr, <<>>, tza)

RECURSIVE Ascending(_)
\* the members of a finite set of integers in ascending order
Ascending(S) ==
    IF S = {} THEN <<>>
    ELSE LET least == CHOOSE x \in S : \A y \in S : x <= y
         IN  <<least>> \o Ascending(S \ {least})

\* mutant: the accumulator is a Map, whose keys are listed in insertion order
OwnKeysInsertionOrder(o) == [i \in DOMAIN o |-> o[i][1]]

\* the keys of the object that groupPostsByYear returns, in the order
\* Object.keys / Object.entries / for-in list them (ECMA-262
\* OrdinaryOwnPropertyKeys): integer keys ascending, then the other keys in
\* creation order.  A year is an integer key when it is not negative.
OwnKeys(o) ==
    Ascending({o[i][1] : i \in {j \in DOMAIN o : o[j][1] >= 0}})
      \o SelectSeq([i \in DOMAIN o |-> o[i][1]], LAMBDA k : k < 0)

----------------------------------------------------------------------------
(* getAllTags, getUniqueTags, getUniqueTagsWithCount *)

RECURSIVE getAllTagsReversed(_)
\* mutant: the tag lists are concatenated last article first
getAllTagsReversed(arr) ==
    IF arr = <<>> THEN <<>>
    ELSE getAllTagsReversed(Tail(arr)) \o Head(arr).data.tags

RECURSIVE getAllTags(_)
\* posts.flatMap((post) => [...post.data.tags])
getAllTags(arr) ==
    IF arr = <<>> THEN <<>>
    ELSE Head(arr).data.tags \o getAllTags(Tail(arr))

\* mutant: adding a present value moves it to the end
SetAddMove(set, v) == SelectSeq(set, LAMBDA x : x # v) \o <<v>>

\* Set.prototype.add: a Set keeps the insertion order of first additions
SetAdd(set, v) == IF v \in Range(set) THEN set ELSE Append(set, v)

RECURSIVE NewSet(_, _)
\* new Set(iterable), filled left to right
NewSet(arr, set) ==
    IF arr = <<>> THEN set
    ELSE NewSet(Tail(arr), SetAdd(set, Head(arr)))

getUniqueTags(arr) == NewSet(getAllTags(arr), <<>>)

\* mutant: the running count is not carried over
CountReducerNoCarry(acc, t) == Put(acc, t, 1)

\* mutant: a first occurrence counts from 1
CountReducerFromOne(acc, t) ==
    Put(acc, t, (IF HasKey(acc, t) THEN Get(acc, t) ELSE 1) + 1)

\* (acc, t) => acc.set(t, (acc.get(t) ?? 0) + 1)
CountReducer(acc, t) ==
    Put(acc, t, (IF HasKey(acc, t) THEN Get(acc, t) ELSE 0) + 1)

RECURSIVE CountReduce(_, _)
CountReduce(arr, acc) ==
    IF arr = <<>> THEN acc
    ELSE CountReduce(Tail(arr), CountReducer(acc, Head(arr)))

\* mutant: ascending comparator
CompareCountAsc(a, b) == a[2] - b[2]

\* (a, b) => b[1] - a[1]; a[1] is the count, the second component
CompareCount(a, b) == b[2] - a[2]

\* mutant: an unstable sort, x goes before the elements it compares equal to
SortInsertBeforeEqual(sorted, x) ==
    LET n == Cardinality({i \in DOMAIN sorted : CompareCount(sorted[i], x) < 0})
    IN  SubSeq(sorted, 1, n) \o <<x>> \o SubSeq(sorted, n + 1, Len(sorted))

\* the place of x in a sorted array: after every element that does not
\* compare greater than x (Array.prototype.sort is stable)
SortInsert(sorted, x) ==
    LET n == Cardinality({i \in DOMAIN sorted : CompareCount(sorted[i], x) <= 0})
    IN  SubSeq(sorted, 1, n) \o <<x>> \o SubSeq(sorted, n + 1, Len(sorted))

RECURSIVE SortFrom(_, _)
SortFrom(arr, sorted) ==
    IF arr = <<>> THEN sorted
    ELSE SortFrom(Tail(arr), SortInsert(sorted, Head(arr)))

\* Array.prototype.sort with the comparator CompareCount
Sort(arr) == SortFrom(arr, <<>>)

getUniqueTagsWithCount(arr) == Sort(CountReduce(getAllTags(arr), <<>>))

----------------------------------------------------------------------------
(* The argument array after a call.  The functions call three mutating     *)
(* methods: push (line 32) on a bucket created in line 30, Map.set (line   *)
(* 57) on the Map created in line 58, and sort (line 60) on the array      *)
(* spread from that Map; none of the receivers is the argument or one of   *)
(* its entries.                                                            *)

\* the getCollection filter callback reads id and data.draft
PostsAfterFilter(collection) == collection

\* the reducer reads post.data.publishDate and pushes the post itself
\* onto a bucket, never onto the argument
PostsAfterGroup(arr) == arr

Reverse(s) == [i \in DOMAIN s |-> s[Len(s) + 1 - i]]

\* mutant: the callback returns post.data.tags.reverse()
TagsAfterCallbackReverse(tags) == Reverse(tags)

\* the flatMap callback spreads post.data.tags into a new array
TagsAfterCallback(tags) == tags

PostsAfterGetAllTags(arr) ==
    [i \in DOMAIN arr |-> [arr[i] EXCEPT !.data.tags = TagsAfterCallback(@)]]

\* sort is called on the array spread from the Map
PostsAfterSort(arr) == arr

----------------------------------------------------------------------------
(* The state machine *)

\* a collection with distinct ids, drafts and demo entries; both build modes
InitCollection ==
    /\ posts \in {s \in SeqsUpTo({Entry(id, d, 473356, <<>>) : id \in Ids, d \in BOOLEAN}, MaxPosts) :
                    \A i, j \in DOMAIN s : i # j => s[i].id # s[j].id}
    /\ PROD \in BOOLEAN
    /\ LocalTZA = 0

\* posts of several publish dates, drafts among them; every time zone
InitDates ==
    /\ \E s \in SeqsUpTo(BOOLEAN \X Dates, MaxPosts) :
          posts = [i \in DOMAIN s |-> Entry(PostId(i), s[i][1], s[i][2], <<>>)]
    /\ PROD = FALSE
    /\ LocalTZA \in TimeZones

RECURSIVE SumTo(_, _)
\* lens[1] + ... + lens[n]
SumTo(lens, n) == IF n = 0 THEN 0 ELSE SumTo(lens, n - 1) + lens[n]

\* posts of several tag lists: at most MaxTags tags a post and MaxAllTags
\* tags in all, drawn as the sequence of all tags cut into the posts' lists
InitTags ==
    /\ \E all \in SeqsUpTo(Tags, MaxAllTags) : \E k \in 0..MaxPosts :
          \E lens \in [1..k -> 0..MaxTags] :
             /\ SumTo(lens, k) = Len(all)
             /\ posts = [i \in 1..k |->
                            Entry(PostId(i), FALSE, 473356,
                                  SubSeq(all, SumTo(lens, i - 1) + 1, SumTo(lens, i)))]
    /\ PROD = TRUE
    /\ LocalTZA = 0

Init ==
    /\ InitCollection \/ InitDates \/ InitTags
    /\ called = "none"
    /\ ret = <<>>

CallGetAllPosts ==
    /\ called' = "getAllPosts"
    /\ ret' = getAllPosts(posts, PROD)
    /\ posts' = PostsAfterFilter(posts)
    /\ UNCHANGED <<PROD, LocalTZA>>

CallGroupPostsByYear ==
    /\ called' = "groupPostsByYear"
    /\ ret' = groupPostsByYear(posts, LocalTZA)
    /\ posts' = PostsAfterGroup(posts)
    /\ UNCHANGED <<PROD, LocalTZA>>

CallGetAllTags ==
    /\ called' = "getAllTags"
    /\ ret' = getAllTags(posts)
    /\ posts' = PostsAfterGetAllTags(posts)
    /\ UNCHANGED <<PROD, LocalTZA>>

CallGetUniqueTags ==
    /\ called' = "getUniqueTags"
    /\ ret' = getUniqueTags(posts)
    /\ posts' = PostsAfterGetAllTags(posts)
    /\ UNCHANGED <<PROD, LocalTZA>>

CallGetUniqueTagsWithCount ==
    /\ called' = "getUniqueTagsWithCount"
    /\ ret' = getUniqueTagsWithCount(posts)
    /\ posts' = PostsAfterSort(PostsAfterGetAllTags(posts))
    /\ UNCHANGED <<PROD, LocalTZA>>

Next ==
    \/ CallGetAllPosts
    \/ CallGroupPostsByYear
    \/ CallGetAllTags
    \/ CallGetUniqueTags
    \/ CallGetUniqueTagsWithCount

Spec == Init /\ [][Next]_vars

----------------------------------------------------------------------------
(* Vocabulary of the properties *)

\* the number of positions of s that hold x
Occurrences(s, x) == Cardinality({i \in DOMAIN s : s[i] = x})

\* an id under the demo path prefix "demo/"
IsDemoPath(id) ==
    /\ Len(id) >= 5
    /\ id[1] = "d" /\ id[2] = "e" /\ id[3] = "m" /\ id[4] = "o" /\ id[5] = "/"

RECURSIVE SumLen(_, _)
\* the total length of the tag lists of the first n entries of arr
SumLen(arr, n) == IF n = 0 THEN 0 ELSE SumLen(arr, n - 1) + Len(arr[n].data.tags)

RECURSIVE SumCounts(_, _)
\* the sum of the counts of the first n entries of a tag frequency table
SumCounts(table, n) == IF n = 0 THEN 0 ELSE SumCounts(table, n - 1) + table[n][2]

\* the position of the first occurrence of x in s
FirstIndex(s, x) == CHOOSE i \in DOMAIN s : s[i] = x /\ \A j \in 1..(i - 1) : s[j] # x

\* the content of the bucket of a year index at entry k
Bucket(index, k) == index[k][2]

TypeOK ==
    /\ called \in {"none", "getAllPosts", "groupPostsByYear", "getAllTags",
                   "getUniqueTags", "getUniqueTagsWithCount"}
    /\ PROD \in BOOLEAN
    /\ LocalTZA \in TimeZones
    /\ Len(posts) <= MaxPosts

----------------------------------------------------------------------------
(* C1: in production mode getAllPosts returns no draft and no entry whose  *)
(* id starts with "demo/".                                                 *)
C1_ProductionHidesDraftsAndDemos ==
    (called = "getAllPosts" /\ PROD) =>
        \A i \in DOMAIN ret : ~ret[i].data.draft /\ ~IsDemoPath(ret[i].id)

\* a production build of a collection holding a draft and a published demo
\* entry that still shows something
C1_Witness ==
    /\ called = "getAllPosts" /\ PROD
    /\ \E i \in DOMAIN posts : posts[i].data.draft
    /\ \E i \in DOMAIN posts : ~posts[i].data.draft /\ IsDemoPath(posts[i].id)
    /\ ret # <<>>

C3_GroupPartitionsInput ==
    called = "groupPostsByYear" =>
        /\ \A k, l \in DOMAIN ret : ret[k][1] = ret[l][1] => k = l
        /\ \A k \in DOMAIN ret : \A i \in DOMAIN Bucket(ret, k) :
               getFullYear(Bucket(ret, k)[i].data.publishDate, LocalTZA) = ret[k][1]
        /\ \A e \in Range(posts) \cup UNION {Range(Bucket(ret, k)) : k \in DOMAIN ret} :
               Cardinality(UNION {{<<k, i>> : i \in {j \in DOMAIN Bucket(ret, k) : Bucket(ret, k)[j] = e}} :
                                     k \in DOMAIN ret})
                 = Occurrences(posts, e)

\* three posts, a draft among them, grouped into two years
C3_Witness ==
    /\ called = "groupPostsByYear"
    /\ Len(posts) = 3 /\ Len(ret) = 2
    /\ \E i \in DOMAIN posts : posts[i].data.draft

(* C4 as stated: the count of a tag is the number of posts whose tag list  *)
(* contains the tag, also when a post lists the tag more than once.        *)
C4_CountIsNumberOfPosts ==
    called = "getUniqueTagsWithCount" =>
        \A k \in DOMAIN ret :
            ret[k][2] = Cardinality({i \in DOMAIN posts : ret[k][1] \in Range(posts[i].data.tags)})

(* C4 amended: the count of a tag is the number of its occurrences in the  *)
(* tag lists of the posts; it is the number of posts whose tag list        *)
(* contains the tag when no post lists that tag more than once.            *)
C4_CountIsNumberOfOccurrences ==
    called = "getUniqueTagsWithCount" =>
        \A k \in DOMAIN ret :
            LET t == ret[k][1]
                holders == {i \in DOMAIN posts : t \in Range(posts[i].data.tags)}
            IN  /\ ret[k][2] = Cardinality(UNION {{<<i, j>> : j \in {n \in DOMAIN posts[i].data.tags :
                                                                posts[i].data.tags[n] = t}} :
                                                  i \in DOMAIN posts})
                /\ (\A i \in holders : Occurrences(posts[i].data.tags, t) = 1)
                      => ret[k][2] = Cardinality(holders)

\* a tag listed twice by one post and once by another is counted 3
C4_Witness ==
    /\ called = "getUniqueTagsWithCount"
    /\ \E i, j \in DOMAIN posts : \E k \in DOMAIN ret :
          /\ i # j
          /\ Occurrences(posts[i].data.tags, ret[k][1]) = 2
          /\ Occurrences(posts[j].data.tags, ret[k][1]) = 1
          /\ ret[k][2] = 3

(* C5: the counts of getUniqueTagsWithCount sum to the length of           *)
(* getAllTags of the same posts.                                           *)
C5_CountsSumToAllTags ==
    called = "getUniqueTagsWithCount" =>
        SumCounts(ret, Len(ret)) = Len(getAllTags(posts))

\* a table of three tags over more than three occurrences
C5_Witness ==
    /\ called = "getUniqueTagsWithCount"
    /\ Len(ret) = 3
    /\ Len(getAllTags(posts)) > 3

(* C6: the table of getUniqueTagsWithCount is sorted non-increasing by     *)
(* count: each entry's count is at least the count of the next entry.      *)
C6_CountsNonIncreasing ==
    called = "getUniqueTagsWithCount" =>
        \A k \in 1..(Len(ret) - 1) : ret[k][2] >= ret[k + 1][2]

\* the tag met first is the rarest one, so the sort has to move it
C6_Witness ==
    /\ called = "getUniqueTagsWithCount"
    /\ Len(ret) >= 2
    /\ getAllTags(posts)[1] = ret[Len(ret)][1]
    /\ ret[1][2] > ret[Len(ret)][2]

(* C7: getAllTags is the concatenation of the tag lists in post order:     *)
(* tag j of post i stands at position (sum of the earlier lists' lengths)  *)
(* + j, and the length is the sum of the lists' lengths.                   *)
C7_AllTagsIsConcatenation ==
    called = "getAllTags" =>
        /\ Len(ret) = SumLen(posts, Len(posts))
        /\ \A i \in DOMAIN posts : \A j \in DOMAIN posts[i].data.tags :
               ret[SumLen(posts, i - 1) + j] = posts[i].data.tags[j]

\* a post with no tag between two posts with tags, a tag repeated within
\* one post and across posts
C7_Witness ==
    /\ called = "getAllTags"
    /\ Len(posts) = 3
    /\ posts[2].data.tags = <<>>
    /\ Len(posts[1].data.tags) = 2 /\ posts[1].data.tags[1] = posts[1].data.tags[2]
    /\ posts[3].data.tags # <<>> /\ posts[3].data.tags[1] = posts[1].data.tags[1]
    /\ Len(ret) = 2 + Len(posts[3].data.tags)

(* C8: getUniqueTags holds no value twice, holds exactly the values of     *)
(* getAllTags, and lists them in the order of their first occurrence in    *)
(* getAllTags.                                                             *)
C8_UniqueTagsFirstOccurrenceOrder ==
    called = "getUniqueTags" =>
        /\ \A k, l \in DOMAIN ret : ret[k] = ret[l] => k = l
        /\ Range(ret) = Range(getAllTags(posts))
        /\ \A k, l \in DOMAIN ret :
               k < l => FirstIndex(getAllTags(posts), ret[k]) < FirstIndex(getAllTags(posts), ret[l])

\* a tag that occurs again after a later tag was first met
C8_Witness ==
    /\ called = "getUniqueTags"
    /\ Len(ret) >= 2
    /\ \E n \in DOMAIN getAllTags(posts) :
          /\ getAllTags(posts)[n] = ret[1]
          /\ n > FirstIndex(getAllTags(posts), ret[2])

(* C9: every bucket of groupPostsByYear holds its posts in input order:    *)
(* the bucket is the input restricted to the posts of the bucket's year.   *)
C9_BucketsKeepInputOrder ==
    called = "groupPostsByYear" =>
        \A k \in DOMAIN ret :
            Bucket(ret, k) =
                SelectSeq(posts, LAMBDA e : getFullYear(e.data.publishDate, LocalTZA) = ret[k][1])

\* two posts of one year with a post of another year between them
C9_Witness ==
    /\ called = "groupPostsByYear"
    /\ Len(posts) = 3
    /\ \E k \in DOMAIN ret : Bucket(ret, k) = <<posts[1], posts[3]>>

(* C10: the keys of groupPostsByYear are exactly the publish years of the  *)
(* input posts, no bucket is empty, and an empty input yields no key.      *)
C10_KeysAreTheRepresentedYears ==
    called = "groupPostsByYear" =>
        /\ {ret[k][1] : k \in DOMAIN ret}
              = {getFullYear(posts[i].data.publishDate, LocalTZA) : i \in DOMAIN posts}
        /\ \A k \in DOMAIN ret : Bucket(ret, k) # <<>>
        /\ posts = <<>> => ret = <<>>

\* posts of three different years give three keys
C10_Witness ==
    /\ called = "groupPostsByYear"
    /\ Len(posts) = 3
    /\ Cardinality({ret[k][1] : k \in DOMAIN ret}) = 3

\* the empty input gives the empty index
C10_WitnessEmpty ==
    /\ called = "groupPostsByYear"
    /\ posts = <<>>
    /\ ret = <<>>

(* C11: no operation modifies its input: every step leaves the post array  *)
(* as it was, the same posts in the same order with the same tag list,     *)
(* draft flag and publishDate.                                             *)
C11_InputUnchanged == [][posts' = posts]_vars

\* a call that built and sorted a table from posts whose tag lists are not
\* all the same read backwards
C11_Witness ==
    /\ called = "getUniqueTagsWithCount"
    /\ Len(ret) >= 2
    /\ \E i \in DOMAIN posts : posts[i].data.tags # Reverse(posts[i].data.tags)

(* C12: entries of getUniqueTagsWithCount with equal counts keep encounter *)
(* order: of two tags with the same count, the one first met earlier in    *)
(* getAllTags stands earlier in the table.                                 *)
C12_TiesKeepEncounterOrder ==
    called = "getUniqueTagsWithCount" =>
        \A k, l \in DOMAIN ret :
            (ret[k][2] = ret[l][2]
               /\ FirstIndex(getAllTags(posts), ret[k][1]) < FirstIndex(getAllTags(posts), ret[l][1]))
            => k < l

\* two tied tags that a more frequent, later met tag has overtaken
C12_Witness ==
    /\ called = "getUniqueTagsWithCount"
    /\ Len(ret) = 3
    /\ ret[2][2] = ret[3][2] /\ ret[1][2] > ret[2][2]
    /\ FirstIndex(getAllTags(posts), ret[1][1]) > FirstIndex(getAllTags(posts), ret[3][1])

(* C13 as stated: the keys of the result of groupPostsByYear are listed in *)
(* the order in which each year is first met in the input, not in numeric  *)
(* order.                                                                  *)
C13_KeysInEncounterOrder ==
    called = "groupPostsByYear" =>
        \A k, l \in DOMAIN OwnKeys(ret) :
            k < l =>
                (CHOOSE i \in DOMAIN posts :
                    /\ getFullYear(posts[i].data.publishDate, LocalTZA) = OwnKeys(ret)[k]
                    /\ \A j \in 1..(i - 1) :
                          getFullYear(posts[j].data.publishDate, LocalTZA) # OwnKeys(ret)[k])
                <
                (CHOOSE i \in DOMAIN posts :
                    /\ getFullYear(posts[i].data.publishDate, LocalTZA) = OwnKeys(ret)[l]
                    /\ \A j \in 1..(i - 1) :
                          getFullYear(posts[j].data.publishDate, LocalTZA) # OwnKeys(ret)[l])

(* C13 amended: for publish years that are not negative, the keys of the   *)
(* result of groupPostsByYear are listed in ascending numeric order,       *)
(* whatever the order in which the years are met in the input.             *)
C13_KeysInNumericOrder ==
    (called = "groupPostsByYear" /\ \A k \in DOMAIN ret : ret[k][1] >= 0) =>
        /\ Len(OwnKeys(ret)) = Len(ret)
        /\ \A k \in 1..(Len(OwnKeys(ret)) - 1) : OwnKeys(ret)[k] < OwnKeys(ret)[k + 1]

\* a later year met before an earlier one: the keys are not listed as met
C13_Witness ==
    /\ called = "groupPostsByYear"
    /\ Len(ret) >= 2
    /\ ret[1][1] > ret[2][1]
    /\ OwnKeys(ret)[1] = ret[2][1]

(* C14: getUniqueTagsWithCount has exactly one entry for each tag of       *)
(* getUniqueTags and no other entry, every count is at least 1, and posts  *)
(* without tags give the empty table.                                      *)
C14_OneEntryPerUniqueTag ==
    called = "getUniqueTagsWithCount" =>
        /\ \A t \in Range(getUniqueTags(posts)) :
               Cardinality({k \in DOMAIN ret : ret[k][1] = t}) = 1
        /\ \A k \in DOMAIN ret : ret[k][1] \in Range(getUniqueTags(posts))
        /\ \A k \in DOMAIN ret : ret[k][2] >= 1
        /\ (\A i \in DOMAIN posts : posts[i].data.tags = <<>>) => ret = <<>>

\* a table of two entries over three posts, one tag met in two posts
C14_Witness ==
    /\ called = "getUniqueTagsWithCount"
    /\ Len(posts) = 3
    /\ Len(ret) = 2
    /\ \E i, j \in DOMAIN posts :
          i # j /\ Range(posts[i].data.tags) \cap Range(posts[j].data.tags) # {}

\* three posts without tags give the empty table
C14_WitnessEmpty ==
    /\ called = "getUniqueTagsWithCount"
    /\ Len(posts) = 3
    /\ ret = <<>>

C15_WitnessEqual ==
    /\ called = "getAllPosts" /\ ~PROD
    /\ Len(ret) >= 2
    /\ \A i \in DOMAIN posts : posts[i].data.draft \/ ~IsDemoPath(posts[i].id)

(* C16: in both modes the output of getAllPosts is a subsequence of its    *)
(* input (nothing added, duplicated or reordered), and filtering the       *)
(* output again in the same mode returns it unchanged.                     *)
C16_FilterIdempotentOrderPreserving ==
    called = "getAllPosts" =>
        /\ \E f \in [DOMAIN ret -> DOMAIN posts] :
              /\ \A k, l \in DOMAIN ret : k < l => f[k] < f[l]
              /\ \A k \in DOMAIN ret : ret[k] = posts[f[k]]
        /\ getAllPosts(ret, PROD) = ret

\* a filter that dropped the middle entry of three and kept the others
C16_Witness ==
    /\ called = "getAllPosts"
    /\ Len(posts) = 3
    /\ ret = <<posts[1], posts[3]>>
    /\ posts[1] # posts[3]
====
